---- MODULE Spec2Model ----
(***************************************************************************)
(* Employee attendance system: the attendance table of the Supabase       *)
(* schema (UNIQUE(user_id, date), numeric(4,2) hours) and the check-in /  *)
(* check-out handlers of the EmployeeDashboard page, run by several       *)
(* browser sessions against the one store.                                *)
(*                                                                         *)
(* Time is counted in seconds.  An instant is the number of seconds since *)
(* 00:00:00 UTC of day 0; a date is a UTC day number (the value that      *)
(* toISOString().split('T')[0] names); total_hours is kept as the store   *)
(* keeps it, in hundredths of an hour (numeric(4,2)).                     *)
(*                                                                         *)
(* A store call (insert, update, select) is atomic in the store; the      *)
(* awaits around it are the points where the sessions interleave.  A      *)
(* handler that has written awaits loadDashboardData, which is the        *)
(* session's next step (pc = "load").  Two clicks of one session before   *)
(* its reload act on the store like one click in each of two sessions     *)
(* holding the same copy, which is how they are modelled.  monthlyStats   *)
(* and recentAttendance are display state that no handler reads; they     *)
(* are not part of this state.                                            *)
(***************************************************************************)
EXTENDS Integers, FiniteSets, Sequences, TLC

(* ---------------- bounds ---------------- *)

\* the clock is read at the first MaxInstant instants of the timeline
MaxInstant == 4

(* ---------------- units ---------------- *)

SecondsPerHour == 60 * 60
SecondsPerDay == 24 * SecondsPerHour

\* the null of a nullable column (check_out_time, todayAttendance)
NULL == -1

\* cutoff hour of the status rule
LateHour == 9

\* numeric(4,2): values of absolute value < 10^2, i.e. < 10000 hundredths
NumericLimit == 10000

(* ---------------- the environment ---------------- *)

\* timezone offsets of the deployment, seconds east of UTC (UTC and UTC-07:00)
TzOffsets == {0, 0 - 7 * SecondsPerHour}

\* local times of day at which the clock is read: 08:59:59, 09:00:00, 17:30:00
LocalTimes == <<9 * SecondsPerHour - 1, 9 * SecondsPerHour, 17 * SecondsPerHour + 1800>>

\* the k-th instant of the timeline in a deployment with offset z: the local
\* times of local day 1, then those of day 2, ...
Instant(k, z) ==
    ((k - 1) \div Len(LocalTimes) + 1) * SecondsPerDay
        + LocalTimes[((k - 1) % Len(LocalTimes)) + 1] - z

\* the instants new Date() can return in a deployment with offset z
Instants(z) == {Instant(k, z) : k \in 1..MaxInstant}

Sessions == {"s1", "s2"}

\* useAuth().user of each session: both sessions are signed in as e1
SessionUser(s) == "e1"

(* ---------------- Date arithmetic ---------------- *)

\* now.toISOString().split('T')[0]: the UTC calendar date of the instant
IsoDate(t) == t \div SecondsPerDay

\* now.getHours(): the hour of day in the local timezone
GetHours(t, z) == ((t + z) % SecondsPerDay) \div SecondsPerHour

\* Math.round(x) for x = n / d, d > 0: the nearest integer, halves upward
\* (no elapsed time of the timeline is an exact half of a hundredth of an
\* hour, where the double arithmetic of the code could differ)
MathRound(n, d) == (2 * n + d) \div (2 * d)

(* ---------------- state ---------------- *)

VARIABLES
    tz,               \* timezone offset of the deployment
    now,              \* the instant the next new Date() returns
    attendance,       \* the rows of table attendance
    nextId,           \* the next gen_random_uuid()
    todayAttendance,  \* per session: useState todayAttendance
    loading,          \* per session: useState loading
    pc,               \* per session: "load" while loadDashboardData awaits
    lastError         \* the last console.error of the handlers

\* the state of the EmployeeDashboard sessions and their store
dashVars == <<tz, now, attendance, nextId, todayAttendance, loading, pc, lastError>>

\* the state of the row-level policies' store (profiles and attendance rows
\* seen through the policies)
VARIABLES
    polProfiles,      \* table profiles: per auth user its row, or NoProfile
    polAttendance,    \* table attendance: rows [rid, user_id, status]
    lastAccess        \* the last request and what the policies decided

polVars == <<polProfiles, polAttendance, lastAccess>>

\* the state of the summary cards of the EmployeeDashboard and Reports pages
VARIABLES
    sumRecords,       \* the records the query returned (monthData, attendance)
    monthlyStats,     \* EmployeeDashboard: useState monthlyStats
    reportStats       \* Reports: const stats of the last render

sumVars == <<sumRecords, monthlyStats, reportStats>>

\* the state of the ManagerDashboard page and the tables it reads
VARIABLES
    mgrProfiles,      \* table profiles, in the order select('*') returns it
    mgrAttendance,    \* table attendance, ordered by date
    stats,            \* ManagerDashboard: useState stats
    mgrLoading        \* ManagerDashboard: useState loading

mgrVars == <<mgrProfiles, mgrAttendance, stats, mgrLoading>>

\* the state of the Reports page
VARIABLES
    repAttendance,    \* Reports: useState attendance (records with profile)
    repRange,         \* Reports: useState startDate, endDate
    repDownload       \* the file the last export offered to the browser

repVars == <<repAttendance, repRange, repDownload>>

\* the state of a month page (EmployeeHistory, TeamCalendar)
VARIABLES
    calMonth,         \* useState currentMonth: a Date
    calAttendance,    \* useState attendance: the records shown
    calLoading,       \* useState loading
    calPending        \* the queries of loadAttendance awaiting their answer

calVars == <<calMonth, calAttendance, calLoading, calPending>>

\* the state of AppContent
VARIABLES
    authLoading,      \* useAuth().loading
    appUser,          \* useAuth().user
    appProfile,       \* useAuth().profile
    currentPage       \* useState currentPage

appVars == <<authLoading, appUser, appProfile, currentPage>>

\* the state of the list pages AllAttendance and Reports, per page
VARIABLES
    listEmployee,     \* useState selectedEmployee
    listShown,        \* useState attendance: the selection whose answer is shown
    listLoading,      \* useState loading
    listPending       \* the queries of loadData / loadAttendance awaiting their answer

listVars == <<listEmployee, listShown, listLoading, listPending>>

\* the variables outside each part
offDash == <<polVars, sumVars, mgrVars, repVars, calVars, appVars, listVars>>
offPol == <<dashVars, sumVars, mgrVars, repVars, calVars, appVars, listVars>>
offSum == <<dashVars, polVars, mgrVars, repVars, calVars, appVars, listVars>>
offMgr ==
    <<attendance, nextId, todayAttendance, loading, pc, lastError, polVars, sumVars,
      repVars, calVars, appVars, listVars>>
offRep == <<dashVars, polVars, sumVars, mgrVars, calVars, appVars, listVars>>
offCal ==
    <<tz, now, attendance, nextId, todayAttendance, loading, pc, polVars, sumVars, mgrVars,
      repVars, appVars, listVars>>
offApp == <<dashVars, polVars, sumVars, mgrVars, repVars, calVars, listVars>>

offList == <<dashVars, polVars, sumVars, mgrVars, repVars, calVars, appVars>>

vars == <<dashVars, polVars, sumVars, mgrVars, repVars, calVars, appVars, listVars>>

\* the value of todayAttendance when there is no record (null): a row whose
\* id is NULL
NoRow ==
    [id |-> NULL, user_id |-> "null", date |-> NULL, check_in_time |-> NULL,
     check_out_time |-> NULL, status |-> "null", total_hours |-> NULL]

NoError == [handler |-> "none", code |-> "none"]

(* ---------------- the store ---------------- *)

\* variant: the table has no uniqueness constraint
UniqueViolationNone(rows, u, d) == FALSE

\* variant: only a row that is still open conflicts
UniqueViolationOpenOnly(rows, u, d) ==
    \E r \in rows : r.user_id = u /\ r.date = d /\ r.check_out_time = NULL

\* UNIQUE(user_id, date): an insert of (u, d) conflicts with a stored row
UniqueViolation(rows, u, d) ==
    \E r \in rows : r.user_id = u /\ r.date = d

\* numeric(4,2): the value fits the column
NumericFits(h) == h > -NumericLimit /\ h < NumericLimit

\* .from('attendance').select('*').eq('user_id', u).eq('date', d).maybeSingle()
MaybeSingle(rows, u, d) ==
    IF \E r \in rows : r.user_id = u /\ r.date = d
    THEN CHOOSE r \in rows : r.user_id = u /\ r.date = d
    ELSE NoRow

\* the row an insert of {user_id, date, check_in_time, status} creates:
\* id, check_out_time and total_hours take their column defaults
NewRow(id, u, d, t, st) ==
    [id |-> id, user_id |-> u, date |-> d, check_in_time |-> t,
     check_out_time |-> NULL, status |-> st, total_hours |-> 0]

\* variant: the update also rewrites date with the date of the check-out
UpdateRowsRedate(rows, id, out, h) ==
    {IF r.id = id
     THEN [r EXCEPT !.check_out_time = out, !.total_hours = h,
                    !.date = out \div SecondsPerDay]
     ELSE r : r \in rows}

\* variant: the update writes check_out_time only (total_hours is left to
\* a second call)
UpdateRowsTimeOnly(rows, id, out, h) ==
    {IF r.id = id THEN [r EXCEPT !.check_out_time = out] ELSE r : r \in rows}

\* .update({check_out_time, total_hours}).eq('id', id)
UpdateRows(rows, id, out, h) ==
    {IF r.id = id
     THEN [r EXCEPT !.check_out_time = out, !.total_hours = h]
     ELSE r : r \in rows}

(* ---------------- the handlers' computations ---------------- *)

\* variant: the cutoff is exclusive
CheckInStatusExclusive(hour) == IF hour > LateHour THEN "late" ELSE "present"

\* const status = hour >= 9 ? 'late' : 'present'
CheckInStatus(hour) == IF hour >= LateHour THEN "late" ELSE "present"

\* variant: Math.floor in place of Math.round
RoundedHoursFloor(in, out) == ((out - in) * 100) \div SecondsPerHour

\* Math.round(hours * 100) / 100 with hours = (out - in) / 3600 s,
\* in hundredths of an hour
RoundedHours(in, out) == MathRound((out - in) * 100, SecondsPerHour)

(* ---------------- initial state ---------------- *)

NoProfile == [id |-> "null", role |-> "null", employee_id |-> "null", department |-> "null"]

NoAccess ==
    [actor |-> "none", role |-> "none", table |-> "none", op |-> "none",
     own |-> FALSE, allowed |-> FALSE]

\* the policies' store is not in use
PolicyIdle ==
    /\ polProfiles = <<>>
    /\ polAttendance = {}
    /\ lastAccess = NoAccess

\* useState({ present: 0, absent: 0, late: 0, totalHours: 0 })
MonthlyStatsDefault == [present |-> 0, absent |-> 0, late |-> 0, totalHours |-> 0]

\* the Reports page has not rendered its stats
NotRendered ==
    [totalRecords |-> NULL, present |-> NULL, late |-> NULL, absent |-> NULL,
     totalHours |-> NULL]

\* the summary pages are not in use
SummaryIdle ==
    /\ sumRecords = <<>>
    /\ monthlyStats = MonthlyStatsDefault
    /\ reportStats = NotRendered

\* useState<DashboardStats>({ totalEmployees: 0, ..., absentToday: [] })
StatsDefault ==
    [totalEmployees |-> 0, todayPresent |-> 0, todayAbsent |-> 0, todayLate |-> 0,
     weeklyTrend |-> <<>>, departmentStats |-> <<>>, absentToday |-> <<>>]

\* the manager dashboard is not in use
ManagerIdle ==
    /\ mgrProfiles = <<>>
    /\ mgrAttendance = <<>>
    /\ stats = StatsDefault
    /\ mgrLoading = TRUE

\* no file has been offered for download
NoDownload == [filename |-> <<>>, content |-> <<>>]

\* the Reports page is not in use
ReportsIdle ==
    /\ repAttendance = <<>>
    /\ repRange = [startDate |-> 0, endDate |-> 0]
    /\ repDownload = NoDownload

\* no month page is in use
CalendarIdle ==
    /\ calMonth = 0
    /\ calAttendance = {}
    /\ calLoading = TRUE
    /\ calPending = {}

\* AppContent before the auth state is known
AppIdle ==
    /\ authLoading = TRUE
    /\ appUser = "null"
    /\ appProfile = NoProfile
    /\ currentPage = "dashboard"

ListPages == {"AllAttendance", "Reports"}

\* no list page is in use: the useState values
ListIdle ==
    /\ listEmployee = [p \in ListPages |-> "all"]
    /\ listShown = [p \in ListPages |-> "none"]
    /\ listLoading = [p \in ListPages |-> p = "AllAttendance"]
    /\ listPending = [p \in ListPages |-> <<>>]

\* the pages outside the four parts above are not in use
PagesIdle == ReportsIdle /\ CalendarIdle /\ AppIdle /\ ListIdle

Init ==
    /\ tz \in TzOffsets
    /\ now = Instant(1, tz)
    /\ attendance = {}
    /\ nextId = 1
    /\ todayAttendance = [s \in Sessions |-> NoRow]
    /\ loading = [s \in Sessions |-> TRUE]
    /\ pc = [s \in Sessions |-> "load"]
    /\ lastError = NoError
    /\ PolicyIdle
    /\ SummaryIdle
    /\ ManagerIdle
    /\ PagesIdle

(* ---------------- actions ---------------- *)

\* time passes: the clock shows a later instant
Tick ==
    /\ \E t \in Instants(tz) : t > now /\ now' = t
    /\ UNCHANGED <<tz, attendance, nextId, todayAttendance, loading, pc, lastError>>
    /\ UNCHANGED offDash

\* the client's clock is set back (a correction of a clock that ran ahead,
\* or the same account used on a device whose clock is behind)
ClockSetBack ==
    /\ \E t \in Instants(tz) : t < now /\ now' = t
    /\ UNCHANGED <<tz, attendance, nextId, todayAttendance, loading, pc, lastError>>
    /\ UNCHANGED offDash

\* the button of the "Today's Status" card: !todayAttendance ? Check In :
\* !todayAttendance.check_out_time ? Check Out : Completed
DashboardButton(rec) ==
    IF rec = NoRow THEN "Check In"
    ELSE IF rec.check_out_time = NULL THEN "Check Out"
    ELSE "Completed"

\* the dashboard page is mounted again (navigation away and back, or a page
\* reload): its state starts from the useState defaults and the effect
\* starts loadDashboardData
Mount(s) ==
    /\ pc[s] = "idle"
    /\ todayAttendance' = [todayAttendance EXCEPT ![s] = NoRow]
    /\ loading' = [loading EXCEPT ![s] = TRUE]
    /\ pc' = [pc EXCEPT ![s] = "load"]
    /\ UNCHANGED <<tz, now, attendance, nextId, lastError>>
    /\ UNCHANGED offDash

\* loadDashboardData: the query of today's record and what follows it.
\* up = FALSE: the store answers {data: null, error}, which the code reads
\* as data only.
LoadDashboardData(s, up) ==
    /\ pc[s] = "load"
    /\ LET today == IsoDate(now)
           todayData == IF up THEN MaybeSingle(attendance, SessionUser(s), today)
                        ELSE NoRow
       IN todayAttendance' = [todayAttendance EXCEPT ![s] = todayData]
    /\ loading' = [loading EXCEPT ![s] = FALSE]
    /\ pc' = [pc EXCEPT ![s] = "idle"]
    /\ UNCHANGED <<tz, now, attendance, nextId, lastError>>
    /\ UNCHANGED offDash

\* handleCheckIn, reached by the Check In button, which is rendered when
\* loading is false and todayAttendance is null.
\* up = FALSE: the store is unreachable and the insert returns an error.
HandleCheckIn(s, up) ==
    /\ pc[s] = "idle"
    /\ ~loading[s]
    /\ todayAttendance[s] = NoRow
    /\ LET today == IsoDate(now)
           checkInTime == now
           hour == GetHours(now, tz)
           status == CheckInStatus(hour)
           error == IF ~up THEN "store_unavailable"
                    ELSE IF UniqueViolation(attendance, SessionUser(s), today)
                         THEN "unique_violation"
                    ELSE "none"
       IN IF error = "none"
          THEN /\ attendance' = attendance \cup
                      {NewRow(nextId, SessionUser(s), today, checkInTime, status)}
               /\ nextId' = nextId + 1
               /\ pc' = [pc EXCEPT ![s] = "load"]
               /\ UNCHANGED lastError
          ELSE /\ lastError' = [handler |-> "checkin", code |-> error]
               /\ UNCHANGED <<attendance, nextId, pc>>
    /\ UNCHANGED <<tz, now, todayAttendance, loading>>
    /\ UNCHANGED offDash

\* handleCheckOut, reached by the Check Out button, which is rendered when
\* loading is false and todayAttendance is a record without check_out_time.
HandleCheckOut(s, up) ==
    /\ pc[s] = "idle"
    /\ ~loading[s]
    /\ todayAttendance[s] # NoRow
    /\ todayAttendance[s].check_out_time = NULL
    /\ LET checkOutTime == now
           checkInTime == todayAttendance[s].check_in_time
           hours == RoundedHours(checkInTime, checkOutTime)
           error == IF ~up THEN "store_unavailable"
                    ELSE IF ~NumericFits(hours) THEN "numeric_overflow"
                    ELSE "none"
       IN IF error = "none"
          THEN /\ attendance' = UpdateRows(attendance, todayAttendance[s].id,
                                           checkOutTime, hours)
               /\ pc' = [pc EXCEPT ![s] = "load"]
               /\ UNCHANGED lastError
          ELSE /\ lastError' = [handler |-> "checkout", code |-> error]
               /\ UNCHANGED <<attendance, pc>>
    /\ UNCHANGED <<tz, now, nextId, todayAttendance, loading>>
    /\ UNCHANGED offDash

Next ==
    \/ Tick
    \/ ClockSetBack
    \/ \E s \in Sessions : Mount(s)
    \/ \E s \in Sessions, up \in BOOLEAN : LoadDashboardData(s, up)
    \/ \E s \in Sessions, up \in BOOLEAN : HandleCheckIn(s, up)
    \/ \E s \in Sessions, up \in BOOLEAN : HandleCheckOut(s, up)

Spec == Init /\ [][Next]_vars

(* ---------------- the row-level policies ---------------- *)

\* rows of table attendance held by the policies' store
MaxPolRows == 1

\* the auth users that send requests (TO authenticated)
Actors == {"u1", "u2"}

Roles == {"employee", "manager"}
EmployeeCodes == {"EMP1", "EMP2"}
Departments == {"", "Eng"}

\* the rows a request can carry; department stands for the free-text
\* columns name, email and department
ProfileRows ==
    [id : Actors, role : Roles, employee_id : EmployeeCodes, department : Departments]

AttendanceRows == [rid : 1..MaxPolRows, user_id : Actors, status : {"present", "late"}]

\* EXISTS (SELECT 1 FROM profiles WHERE profiles.id = auth.uid()
\*         AND profiles.role = 'manager')
IsManager(uid) ==
    polProfiles[uid] # NoProfile /\ polProfiles[uid].role = "manager"

\* "Users can view own profile", "Managers can view all profiles"
ProfilesSelectUsing(uid, row) == uid = row.id \/ IsManager(uid)

\* "Users can update own profile": USING and WITH CHECK
ProfilesUpdateUsing(uid, row) == uid = row.id
ProfilesUpdateCheck(uid, new) == uid = new.id

\* "Users can insert own profile"
ProfilesInsertCheck(uid, new) == uid = new.id

\* profiles has no DELETE policy: with row level security enabled every
\* delete is refused
ProfilesDeleteUsing(uid, row) == FALSE

\* "Employees can view own attendance", "Managers can view all attendance"
AttendanceSelectUsing(uid, row) == uid = row.user_id \/ IsManager(uid)

\* "Employees can insert own attendance"
AttendanceInsertCheck(uid, new) == uid = new.user_id

\* variant: a manager may update every attendance row
AttendanceUpdateUsingManager(uid, row) == uid = row.user_id \/ IsManager(uid)

\* "Employees can update own attendance": USING and WITH CHECK
AttendanceUpdateUsing(uid, row) == uid = row.user_id
AttendanceUpdateCheck(uid, new) == uid = new.user_id

\* "Employees can delete own attendance"
AttendanceDeleteUsing(uid, row) == uid = row.user_id

\* the role of the requesting user, read from its profile
RoleOf(uid) == IF polProfiles[uid] = NoProfile THEN "none" ELSE polProfiles[uid].role

Access(uid, table, op, own, allowed) ==
    [actor |-> uid, role |-> RoleOf(uid), table |-> table, op |-> op,
     own |-> own, allowed |-> allowed]

\* PRIMARY KEY (id), UNIQUE (employee_id) of profiles, for a row put in place
\* of the row of user old ("null": no row is replaced)
ProfileKeysFree(new, old) ==
    /\ new.id # old => polProfiles[new.id] = NoProfile
    /\ \A a \in Actors :
         (a # old /\ polProfiles[a] # NoProfile)
         => polProfiles[a].employee_id # new.employee_id

\* the dashboard part is not in use
DashIdle ==
    /\ tz = 0
    /\ now = Instant(1, 0)
    /\ attendance = {}
    /\ nextId = 1
    /\ todayAttendance = [s \in Sessions |-> NoRow]
    /\ loading = [s \in Sessions |-> TRUE]
    /\ pc = [s \in Sessions |-> "load"]
    /\ lastError = NoError

PolicyInit ==
    /\ DashIdle
    /\ SummaryIdle
    /\ ManagerIdle
    /\ PagesIdle
    /\ polProfiles = [a \in Actors |-> NoProfile]
    /\ polAttendance = {}
    /\ lastAccess = NoAccess

\* select on profiles, row t
ProfileSelect(a, t) ==
    /\ polProfiles[t] # NoProfile
    /\ lastAccess' = Access(a, "profiles", "select", t = a,
                            ProfilesSelectUsing(a, polProfiles[t]))
    /\ UNCHANGED <<polProfiles, polAttendance, offPol>>

\* insert into profiles
ProfileInsert(a, new) ==
    /\ LET allowed == ProfilesInsertCheck(a, new)
       IN /\ lastAccess' = Access(a, "profiles", "insert", new.id = a, allowed)
          /\ IF allowed /\ ProfileKeysFree(new, "null")
             THEN polProfiles' = [polProfiles EXCEPT ![new.id] = new]
             ELSE UNCHANGED polProfiles
    /\ UNCHANGED <<polAttendance, offPol>>

\* update of profiles row t to the values new
ProfileUpdate(a, t, new) ==
    /\ polProfiles[t] # NoProfile
    /\ LET allowed == /\ ProfilesUpdateUsing(a, polProfiles[t])
                      /\ ProfilesUpdateCheck(a, new)
       IN /\ lastAccess' = Access(a, "profiles", "update", t = a /\ new.id = a, allowed)
          /\ IF allowed /\ ProfileKeysFree(new, t)
             THEN polProfiles' = [polProfiles EXCEPT ![t] = NoProfile, ![new.id] = new]
             ELSE UNCHANGED polProfiles
    /\ UNCHANGED <<polAttendance, offPol>>

\* delete of profiles row t
ProfileDelete(a, t) ==
    /\ polProfiles[t] # NoProfile
    /\ LET allowed == ProfilesDeleteUsing(a, polProfiles[t])
       IN /\ lastAccess' = Access(a, "profiles", "delete", t = a, allowed)
          /\ IF allowed
             THEN /\ polProfiles' = [polProfiles EXCEPT ![t] = NoProfile]
                  /\ polAttendance' = {r \in polAttendance : r.user_id # t}
             ELSE UNCHANGED <<polProfiles, polAttendance>>
    /\ UNCHANGED offPol

\* select on attendance, row r
AttendanceSelect(a, r) ==
    /\ r \in polAttendance
    /\ lastAccess' = Access(a, "attendance", "select", r.user_id = a,
                            AttendanceSelectUsing(a, r))
    /\ UNCHANGED <<polProfiles, polAttendance, offPol>>

\* insert into attendance; user_id REFERENCES profiles(id)
AttendanceInsert(a, new) ==
    /\ \A r \in polAttendance : r.rid # new.rid
    /\ LET allowed == AttendanceInsertCheck(a, new)
       IN /\ lastAccess' = Access(a, "attendance", "insert", new.user_id = a, allowed)
          /\ IF allowed /\ polProfiles[new.user_id] # NoProfile
             THEN polAttendance' = polAttendance \cup {new}
             ELSE UNCHANGED polAttendance
    /\ UNCHANGED <<polProfiles, offPol>>

\* update of attendance row r to the values new
AttendanceUpdate(a, r, new) ==
    /\ r \in polAttendance
    /\ new.rid = r.rid
    /\ LET allowed == /\ AttendanceUpdateUsing(a, r)
                      /\ AttendanceUpdateCheck(a, new)
       IN /\ lastAccess' = Access(a, "attendance", "update",
                                  r.user_id = a /\ new.user_id = a, allowed)
          /\ IF allowed /\ polProfiles[new.user_id] # NoProfile
             THEN polAttendance' = (polAttendance \ {r}) \cup {new}
             ELSE UNCHANGED polAttendance
    /\ UNCHANGED <<polProfiles, offPol>>

\* delete of attendance row r
AttendanceDelete(a, r) ==
    /\ r \in polAttendance
    /\ LET allowed == AttendanceDeleteUsing(a, r)
       IN /\ lastAccess' = Access(a, "attendance", "delete", r.user_id = a, allowed)
          /\ IF allowed
             THEN polAttendance' = polAttendance \ {r}
             ELSE UNCHANGED polAttendance
    /\ UNCHANGED <<polProfiles, offPol>>

PolicyNext ==
    \/ \E a \in Actors, t \in Actors : ProfileSelect(a, t)
    \/ \E a \in Actors, new \in ProfileRows : ProfileInsert(a, new)
    \/ \E a \in Actors, t \in Actors, new \in ProfileRows : ProfileUpdate(a, t, new)
    \/ \E a \in Actors, t \in Actors : ProfileDelete(a, t)
    \/ \E a \in Actors, r \in AttendanceRows : AttendanceSelect(a, r)
    \/ \E a \in Actors, new \in AttendanceRows : AttendanceInsert(a, new)
    \/ \E a \in Actors, r \in AttendanceRows, new \in AttendanceRows : AttendanceUpdate(a, r, new)
    \/ \E a \in Actors, r \in AttendanceRows : AttendanceDelete(a, r)

SpecPolicy == PolicyInit /\ [][PolicyNext]_vars

(* ---------------- the summary cards ---------------- *)

\* records of one query
MaxSumRecords == 4

Statuses == {"present", "absent", "late", "half-day"}

\* total_hours of a returned record: null, 4.25 or 8.50
SumHoursValues == {NULL, 425, 850}

SumRecordValues == [status : Statuses, total_hours : SumHoursValues]

\* sequences of at most n elements of S
SeqUpTo(S, n) == UNION {[1..k -> S] : k \in 0..n}

\* records.filter(r => r.status === st).length
CountStatus(records, st) == Len(SelectSeq(records, LAMBDA r : r.status = st))

\* r.total_hours || 0
HoursOrZero(r) == IF r.total_hours = NULL \/ r.total_hours = 0 THEN 0 ELSE r.total_hours

\* records.reduce((sum, r) => sum + (r.total_hours || 0), 0)
RECURSIVE ReduceHours(_, _, _)
ReduceHours(records, i, sum) ==
    IF i > Len(records) THEN sum
    ELSE ReduceHours(records, i + 1, sum + HoursOrZero(records[i]))

\* variant: a late day is counted as a present day too
MonthlyStatsOfLateAsPresent(monthData) ==
    [present |-> CountStatus(monthData, "present") + CountStatus(monthData, "late"),
     absent |-> CountStatus(monthData, "absent"),
     late |-> CountStatus(monthData, "late"),
     totalHours |-> ReduceHours(monthData, 1, 0)]

\* EmployeeDashboard: const stats = {...} of loadDashboardData
MonthlyStatsOf(monthData) ==
    [present |-> CountStatus(monthData, "present"),
     absent |-> CountStatus(monthData, "absent"),
     late |-> CountStatus(monthData, "late"),
     totalHours |-> ReduceHours(monthData, 1, 0)]

\* Reports: const stats = {...}
ReportStatsOf(records) ==
    [totalRecords |-> Len(records),
     present |-> CountStatus(records, "present"),
     late |-> CountStatus(records, "late"),
     absent |-> CountStatus(records, "absent"),
     totalHours |-> ReduceHours(records, 1, 0)]

SummaryInit ==
    /\ DashIdle
    /\ PolicyIdle
    /\ ManagerIdle
    /\ PagesIdle
    /\ sumRecords \in SeqUpTo(SumRecordValues, MaxSumRecords)
    /\ monthlyStats = MonthlyStatsDefault
    /\ reportStats = NotRendered

\* EmployeeDashboard.loadDashboardData: the month query returned sumRecords
LoadMonthlyStats ==
    /\ monthlyStats' = MonthlyStatsOf(sumRecords)
    /\ UNCHANGED <<sumRecords, reportStats, offSum>>

\* Reports: a render with attendance = sumRecords
RenderReportStats ==
    /\ reportStats' = ReportStatsOf(sumRecords)
    /\ UNCHANGED <<sumRecords, monthlyStats, offSum>>

SummaryNext ==
    \/ LoadMonthlyStats
    \/ RenderReportStats

SpecSummary == SummaryInit /\ [][SummaryNext]_vars

(* ---------------- the manager dashboard ---------------- *)

\* rows of table profiles
MaxProfiles == 2

\* rows of table attendance
MaxRecords == 2

\* length of the weekly trend: for (let i = 6; i >= 0; i--)
WeekDays == 7

\* a row of table profiles with primary key i
ProfileOf(i, role, dept) ==
    [id |-> i, name |-> <<"name", i>>, role |-> role,
     employee_id |-> <<"EMP", i>>, department |-> dept]

\* the contents table profiles can have
ProfileTables ==
    UNION {{[i \in 1..n |-> ProfileOf(i, f[i][1], f[i][2])] :
               f \in [1..n -> Roles \X Departments]} : n \in 0..MaxProfiles}

\* date.setDate(date.getDate() - i), in a timezone of fixed offset
SetDateBack(t, i) == t - i * SecondsPerDay

\* date.toLocaleDateString('en-US', { weekday: 'short' }): 0 is Sunday
Weekday(t, z) == ((t + z) \div SecondsPerDay + 4) % 7

\* the dates attendance rows are stored under: today, six and seven days ago
RecordDates(t) == {IsoDate(SetDateBack(t, i)) : i \in {0, WeekDays - 1, WeekDays}}

\* the contents table attendance can have for the profiles 1..n:
\* UNIQUE(user_id, date), user_id REFERENCES profiles(id)
AttendanceTables(n, t) ==
    UNION {{{[user_id |-> k[1], date |-> k[2], status |-> st[k]] : k \in K} :
               st \in [K -> Statuses]} :
           K \in {J \in SUBSET ((1..n) \X RecordDates(t)) : Cardinality(J) <= MaxRecords}}

\* profiles?.filter(p => p.role === 'employee')
Employees(profiles) == SelectSeq(profiles, LAMBDA p : p.role = "employee")

\* from('attendance').select(...).eq('date', today)
TodayRows(table, today) == {a \in table : a.date = today}

\* from('attendance').select('*').gte('date', weekAgoStr)
WeeklyRows(table, weekAgoStr) == {a \in table : a.date >= weekAgoStr}

\* new Set(todayAttendance?.map(a => a.user_id) || [])
PresentUserIds(todayRows) == {a.user_id : a \in todayRows}

\* variant: every profile not in the set, whatever its role
AbsentEmployeesAnyRole(profiles, ids) ==
    LET absent == SelectSeq(profiles, LAMBDA p : p.id \notin ids)
    IN [k \in 1..Len(absent) |->
          [name |-> absent[k].name, employee_id |-> absent[k].employee_id,
           department |-> absent[k].department]]

\* profiles?.filter(p => p.role === 'employee' && !presentUserIds.has(p.id))
\*    .map(p => ({ name, employee_id, department }))
AbsentEmployees(profiles, ids) ==
    LET absent == SelectSeq(profiles, LAMBDA p : p.role = "employee" /\ p.id \notin ids)
    IN [k \in 1..Len(absent) |->
          [name |-> absent[k].name, employee_id |-> absent[k].employee_id,
           department |-> absent[k].department]]

\* variant: absent counts the day's rows with status absent
WeeklyTrendByStatus(weeklyRows, totalEmployees, t, z) ==
    [k \in 1..WeekDays |->
       LET date == SetDateBack(t, WeekDays - k)
           dayData == {a \in weeklyRows : a.date = IsoDate(date)}
       IN [day |-> Weekday(date, z),
           present |-> Cardinality({a \in dayData : a.status = "present" \/ a.status = "late"}),
           absent |-> Cardinality({a \in dayData : a.status = "absent"})]]

\* the loop for (let i = 6; i >= 0; i--) { ... weeklyTrend.push({...}) }:
\* the k-th bucket pushed has i = 7 - k
WeeklyTrend(weeklyRows, totalEmployees, t, z) ==
    [k \in 1..WeekDays |->
       LET date == SetDateBack(t, WeekDays - k)
           dayData == {a \in weeklyRows : a.date = IsoDate(date)}
       IN [day |-> Weekday(date, z),
           present |-> Cardinality({a \in dayData : a.status = "present" \/ a.status = "late"}),
           absent |-> totalEmployees - Cardinality(dayData)]]

\* variant: the department is taken as it is stored
DeptOfRaw(p) == p.department

\* p.department || 'Unassigned'
DeptOf(p) == IF p.department = "" THEN "Unassigned" ELSE p.department

\* deptMap after the forEach over the employees from index i on: a Map
\* keeps its keys in the order of their first insertion
RECURSIVE DeptMap(_, _, _, _)
DeptMap(employees, ids, i, map) ==
    IF i > Len(employees) THEN map
    ELSE LET p == employees[i]
             dept == DeptOf(p)
             has == \E j \in DOMAIN map : map[j].department = dept
             m0 == IF has THEN map
                   ELSE Append(map, [department |-> dept, present |-> 0, total |-> 0])
             m1 == [j \in DOMAIN m0 |->
                      IF m0[j].department = dept
                      THEN [m0[j] EXCEPT !.total = @ + 1,
                                         !.present = IF p.id \in ids THEN @ + 1 ELSE @]
                      ELSE m0[j]]
         IN DeptMap(employees, ids, i + 1, m1)

\* Array.from(deptMap.entries()).map(([department, stats]) => ({ department, ...stats }))
DepartmentStats(profiles, ids) == DeptMap(Employees(profiles), ids, 1, <<>>)

\* (part / whole) * 100 as the fraction num / den; den = 0 is a division by zero
Ratio(part, whole) == [num |-> 100 * part, den |-> whole]

\* Math.round(r)
RoundRatio(r) == IF r.den = 0 THEN r ELSE [num |-> MathRound(r.num, r.den), den |-> 1]

\* stats.totalEmployees > 0 ? Math.round((stats.todayPresent / stats.totalEmployees) * 100) : 0
AttendanceRate(st) ==
    IF st.totalEmployees > 0 THEN RoundRatio(Ratio(st.todayPresent, st.totalEmployees))
    ELSE [num |-> 0, den |-> 1]

\* the widths of the bars of stats.weeklyTrend.map((day, index) => ...)
WeeklyBars(st) ==
    [k \in DOMAIN st.weeklyTrend |->
       [present |-> Ratio(st.weeklyTrend[k].present, st.totalEmployees),
        absent |-> Ratio(st.weeklyTrend[k].absent, st.totalEmployees)]]

\* the percentage and the bar width of stats.departmentStats.map((dept, index) => ...)
DepartmentBars(st) ==
    [k \in DOMAIN st.departmentStats |->
       [percent |-> RoundRatio(Ratio(st.departmentStats[k].present, st.departmentStats[k].total)),
        width |-> Ratio(st.departmentStats[k].present, st.departmentStats[k].total)]]

\* TeamCalendar.getAttendanceStatsForDate
GetAttendanceStatsForDate(table, dateStr) ==
    LET dayAttendance == {a \in table : a.date = dateStr}
    IN [present |-> Cardinality({a \in dayAttendance : a.status = "present" \/ a.status = "late"}),
        absent |-> Cardinality({a \in dayAttendance : a.status = "absent"}),
        total |-> Cardinality(dayAttendance)]

\* TeamCalendar: stats.total > 0 ? (stats.present / stats.total) * 100 : 0
CalendarPercentage(st) ==
    IF st.total > 0 THEN Ratio(st.present, st.total) ELSE [num |-> 0, den |-> 1]

\* the page is opened in the deployment of UTC-7 at 17:30 local time of the
\* eighth day, when the UTC date is a day ahead of the local date
ManagerInit ==
    /\ tz = 0 - 7 * SecondsPerHour
    /\ now = Instant(3, tz) + WeekDays * SecondsPerDay
    /\ attendance = {}
    /\ nextId = 1
    /\ todayAttendance = [s \in Sessions |-> NoRow]
    /\ loading = [s \in Sessions |-> TRUE]
    /\ pc = [s \in Sessions |-> "load"]
    /\ lastError = NoError
    /\ PolicyIdle
    /\ SummaryIdle
    /\ PagesIdle
    /\ mgrProfiles \in ProfileTables
    /\ mgrAttendance \in AttendanceTables(Len(mgrProfiles), now)
    /\ stats = StatsDefault
    /\ mgrLoading = TRUE

\* ManagerDashboard.loadDashboardStats, with every query answered
LoadDashboardStats ==
    LET totalEmployees == Len(Employees(mgrProfiles))
        today == IsoDate(now)
        todayRows == TodayRows(mgrAttendance, today)
        todayPresent == Cardinality({a \in todayRows : a.status = "present"})
        todayLate == Cardinality({a \in todayRows : a.status = "late"})
        presentUserIds == PresentUserIds(todayRows)
        weekAgoStr == IsoDate(SetDateBack(now, WeekDays - 1))
        weeklyRows == WeeklyRows(mgrAttendance, weekAgoStr)
    IN /\ stats' =
            [totalEmployees |-> totalEmployees,
             todayPresent |-> todayPresent,
             todayAbsent |-> totalEmployees - (todayPresent + todayLate),
             todayLate |-> todayLate,
             weeklyTrend |-> WeeklyTrend(weeklyRows, totalEmployees, now, tz),
             departmentStats |-> DepartmentStats(mgrProfiles, presentUserIds),
             absentToday |-> AbsentEmployees(mgrProfiles, presentUserIds)]
       /\ mgrLoading' = FALSE
       /\ UNCHANGED <<tz, now, mgrProfiles, mgrAttendance, offMgr>>

ManagerNext == LoadDashboardStats

SpecManager == ManagerInit /\ [][ManagerNext]_vars

(* ---------------- the CSV export of the Reports page ---------------- *)

\* a text is a sequence of tokens: the comma, the double quote and the
\* line break each are a token of their own, every other token is a run of
\* characters without any of the three

\* records shown on the Reports page
MaxCsvRecords == 2

\* the values of the free-text column name
CsvNames ==
    <<  <<"Ann">>,
        <<"Roe", ",", " Jr">>,
        <<"Al ", "\"", "Ace", "\"", " Ray">>,
        <<"Ng", "\n", "Li">>,
        <<"\"", ",", "\"">>  >>

\* the values of the free-text column department
CsvDepartments == {<<>>, <<"R", ",", "D">>}

\* check_in_time, check_out_time, total_hours and status of a record: no
\* times and null hours, checked in at 09:00 of day 1, and checked out at 17:30
CsvTimings ==
    {[check_in_time |-> NULL, check_out_time |-> NULL, total_hours |-> NULL,
      status |-> "absent"],
     [check_in_time |-> Instant(2, 0), check_out_time |-> NULL, total_hours |-> 0,
      status |-> "late"],
     [check_in_time |-> Instant(2, 0), check_out_time |-> Instant(3, 0), total_hours |-> 850,
      status |-> "late"]}

\* a row of attendance joined with its profile (AttendanceWithProfile)
CsvRecordOf(n, dept, timing) ==
    [profiles |-> [name |-> CsvNames[n], employee_id |-> <<"EMP" \o ToString(n)>>,
                   department |-> dept],
     date |-> IF timing.check_in_time = NULL THEN 1 ELSE IsoDate(timing.check_in_time),
     check_in_time |-> timing.check_in_time,
     check_out_time |-> timing.check_out_time,
     total_hours |-> timing.total_hours,
     status |-> timing.status]

CsvRecordValues ==
    {CsvRecordOf(n, dept, timing) :
        n \in DOMAIN CsvNames, dept \in CsvDepartments, timing \in CsvTimings}

\* the values of the date inputs startDate and endDate
RangeDates == {1, 31}

\* a date string YYYY-MM-DD, as one token
DateString(d) == <<"date" \o ToString(d)>>

\* new Date(t).toLocaleString(): "M/D/YYYY, h:mm:ss AM" in the local timezone
ToLocaleString(t, z) ==
    <<"day" \o ToString((t + z) \div SecondsPerDay), ",",
      " time" \o ToString((t + z) % SecondsPerDay)>>

\* `${cell}` of a number in hundredths
NumberString(n) == <<ToString(n)>>

\* const headers = [...]
CsvHeaders ==
    <<  <<"Employee Name">>, <<"Employee ID">>, <<"Department">>, <<"Date">>,
        <<"Check In Time">>, <<"Check Out Time">>, <<"Total Hours">>, <<"Status">>  >>

\* attendance.map(record => [...]): the cells of one record
CsvRow(record, z) ==
    <<  record.profiles.name,
        record.profiles.employee_id,
        record.profiles.department,
        DateString(record.date),
        IF record.check_in_time # NULL THEN ToLocaleString(record.check_in_time, z)
        ELSE <<"-">>,
        IF record.check_out_time # NULL THEN ToLocaleString(record.check_out_time, z)
        ELSE <<"-">>,
        NumberString(HoursOrZero(record)),
        <<record.status>>  >>

\* parts.join(sep): the texts of parts with sep between them
RECURSIVE Join(_, _)
Join(parts, sep) ==
    IF parts = <<>> THEN <<>>
    ELSE IF Len(parts) = 1 THEN parts[1]
    ELSE parts[1] \o sep \o Join(Tail(parts), sep)

\* `"${cell}"`
QuoteCell(cell) == <<"\"">> \o cell \o <<"\"">>

\* const csvContent = [headers.join(','), ...rows.map(row =>
\*    row.map(cell => `"${cell}"`).join(','))].join('\n')
CsvContent(records, z) ==
    Join(<<Join(CsvHeaders, <<",">>)>>
            \o [i \in DOMAIN records |->
                  LET row == CsvRow(records[i], z)
                  IN Join([c \in DOMAIN row |-> QuoteCell(row[c])], <<",">>)],
         <<"\n">>)

\* `attendance_report_${startDate}_to_${endDate}.csv`
CsvFilename(range) ==
    <<"attendance_report_">> \o DateString(range.startDate) \o <<"_to_">>
        \o DateString(range.endDate) \o <<".csv">>

ReportsInit ==
    /\ DashIdle
    /\ PolicyIdle
    /\ SummaryIdle
    /\ ManagerIdle
    /\ CalendarIdle
    /\ AppIdle
    /\ ListIdle
    /\ repAttendance \in SeqUpTo(CsvRecordValues, MaxCsvRecords)
    /\ repRange \in [startDate : RangeDates, endDate : RangeDates]
    /\ repDownload = NoDownload

\* Reports.exportToCSV; the button is disabled while attendance is empty
ExportToCSV ==
    /\ Len(repAttendance) # 0
    /\ repDownload' =
          [filename |-> CsvFilename(repRange), content |-> CsvContent(repAttendance, tz)]
    /\ UNCHANGED <<repAttendance, repRange, offRep>>

ReportsNext == ExportToCSV

SpecReports == ReportsInit /\ [][ReportsNext]_vars

(* ---------------- the month pages (EmployeeHistory, TeamCalendar) ---------------- *)

\* months the user can go back or forward from the month the page opened in
MaxMonthSteps == 1

\* queries of loadAttendance awaiting their answer at one time
MaxPending == 2

\* rows of table attendance
MaxCalRows == 1

\* the offsets of the clients' local time from UTC, in seconds: UTC, UTC-7
\* and UTC+5:30
ClientTzOffsets == TzOffsets \cup {5 * SecondsPerHour + 1800}

\* months are counted from January 1970: month index M is month M % 12
\* (0 is January) of the year 1970 + M \div 12
IsLeapYear(y) == y % 4 = 0 /\ (y % 100 # 0 \/ y % 400 = 0)

\* the number of days of month M
DaysInMonth(M) ==
    IF M % 12 = 1 THEN (IF IsLeapYear(1970 + M \div 12) THEN 29 ELSE 28)
    ELSE IF M % 12 \in {3, 5, 8, 10} THEN 30
    ELSE 31

\* the day number (days since 1970-01-01) of the first day of month M;
\* 1972-01-01 is day 730
RECURSIVE FirstDayOfMonth(_)
FirstDayOfMonth(M) ==
    IF M = 24 THEN 730
    ELSE IF M > 24 THEN FirstDayOfMonth(M - 1) + DaysInMonth(M - 1)
    ELSE FirstDayOfMonth(M + 1) - DaysInMonth(M)

\* the month the page opens in: February 1972
OpeningMonth == 12 * (1972 - 1970) + 1

\* the months the page can show, and a month more on either side
Months == (OpeningMonth - MaxMonthSteps)..(OpeningMonth + MaxMonthSteps)
MonthsAround == (OpeningMonth - MaxMonthSteps - 1)..(OpeningMonth + MaxMonthSteps + 1)

\* new Date(year, month, day) for the month index M = 12 * (year - 1970) +
\* month: midnight in local time of day number day of the month, where day 0
\* is the last day of the month before
DateOf(M, day, z) == (FirstDayOfMonth(M) + day - 1) * SecondsPerDay - z

\* 12 * (d.getFullYear() - 1970) + d.getMonth(): the month of d in local time
GetMonthIndex(t, z) ==
    CHOOSE M \in MonthsAround :
        /\ FirstDayOfMonth(M) <= (t + z) \div SecondsPerDay
        /\ (t + z) \div SecondsPerDay < FirstDayOfMonth(M + 1)

\* d.getDate(): the day of the month in local time
GetDate(t, z) == (t + z) \div SecondsPerDay - FirstDayOfMonth(GetMonthIndex(t, z)) + 1

\* variant: the weekday of the UTC date (getUTCDay)
GetDayUTC(t, z) == (t \div SecondsPerDay + 4) % 7

\* d.getDay(): the weekday in local time, 0 is Sunday; 1970-01-01 is a Thursday
GetDay(t, z) == ((t + z) \div SecondsPerDay + 4) % 7

\* loadAttendance: const startDate = new Date(year, month, 1).toISOString()
\* .split('T')[0], const endDate = new Date(year, month + 1, 0)...
MonthRange(currentMonth, z) ==
    LET M == GetMonthIndex(currentMonth, z)
    IN [startDate |-> IsoDate(DateOf(M, 1, z)), endDate |-> IsoDate(DateOf(M + 1, 0, z))]

\* getDaysInMonth
GetDaysInMonth(currentMonth, z) ==
    LET M == GetMonthIndex(currentMonth, z)
        firstDay == DateOf(M, 1, z)
        lastDay == DateOf(M + 1, 0, z)
        daysInMonth == GetDate(lastDay, z)
        startingDayOfWeek == GetDay(firstDay, z)
    IN [i \in 1..(startingDayOfWeek + daysInMonth) |->
          IF i <= startingDayOfWeek THEN NULL ELSE i - startingDayOfWeek]

\* getAttendanceForDate: attendance.find(a => a.date === dateStr), NoRow
\* for undefined
GetAttendanceForDate(records, currentMonth, day, z) ==
    LET dateStr == IsoDate(DateOf(GetMonthIndex(currentMonth, z), day, z))
    IN IF \E a \in records : a.date = dateStr
       THEN CHOOSE a \in records : a.date = dateStr
       ELSE NoRow

\* from('attendance').select('*').eq('user_id', user.id)
\*    .gte('date', startDate).lte('date', endDate)
MonthQuery(table, u, range) ==
    {a \in table : a.user_id = u /\ a.date >= range.startDate /\ a.date <= range.endDate}

\* the dates of the rows of table attendance: the first and the last day of
\* the months
CalendarRowDates ==
    UNION {{FirstDayOfMonth(M), FirstDayOfMonth(M + 1) - 1} : M \in Months}

\* the row with id i of a check-in at noon UTC of day d
CalendarRow(i, d) == NewRow(i, "e1", d, d * SecondsPerDay + 12 * SecondsPerHour, "late")

\* the contents of table attendance: UNIQUE(user_id, date)
CalendarTables ==
    {{CalendarRow(d, d) : d \in D} :
        D \in {E \in SUBSET CalendarRowDates : Cardinality(E) <= MaxCalRows}}

\* the page opens at noon local time of the 15th of the opening month, and
\* the effect has sent the first query
CalendarInit ==
    /\ tz \in ClientTzOffsets
    /\ now = DateOf(OpeningMonth, 15, tz) + 12 * SecondsPerHour
    /\ attendance \in CalendarTables
    /\ nextId = 1
    /\ todayAttendance = [s \in Sessions |-> NoRow]
    /\ loading = [s \in Sessions |-> TRUE]
    /\ pc = [s \in Sessions |-> "load"]
    /\ lastError = NoError
    /\ PolicyIdle
    /\ SummaryIdle
    /\ ManagerIdle
    /\ ReportsIdle
    /\ AppIdle
    /\ ListIdle
    /\ calMonth = now
    /\ calAttendance = {}
    /\ calLoading = TRUE
    /\ calPending = <<MonthRange(now, tz)>>

\* previousMonth (by = -1) and nextMonth (by = 1), and the effect that
\* follows the change of currentMonth: loadAttendance up to its await
ChangeMonth(by) ==
    LET newMonth == DateOf(GetMonthIndex(calMonth, tz) + by, 1, tz)
    IN /\ GetMonthIndex(calMonth, tz) + by \in Months
       /\ Len(calPending) < MaxPending
       /\ calMonth' = newMonth
       /\ calLoading' = TRUE
       /\ calPending' = Append(calPending, MonthRange(newMonth, tz))
       /\ UNCHANGED <<calAttendance, lastError, offCal>>

\* variant without the finally block: loading is reset only after an answer
\* without error
LoadAttendanceDoneNoFinally(i, ok) ==
    /\ i \in DOMAIN calPending
    /\ calAttendance' =
          IF ok THEN MonthQuery(attendance, SessionUser("s1"), calPending[i])
          ELSE calAttendance
    /\ lastError' =
          IF ok THEN lastError
          ELSE [handler |-> "loadAttendance", code |-> "store_unavailable"]
    /\ calLoading' = (IF ok THEN FALSE ELSE calLoading)
    /\ calPending' = SubSeq(calPending, 1, i - 1) \o SubSeq(calPending, i + 1, Len(calPending))
    /\ UNCHANGED <<calMonth, offCal>>

\* loadAttendance from its await on, for the i-th query awaiting its
\* answer: ok = FALSE is an answer with an error, which is thrown, caught
\* and logged
LoadAttendanceDone(i, ok) ==
    /\ i \in DOMAIN calPending
    /\ calAttendance' =
          IF ok THEN MonthQuery(attendance, SessionUser("s1"), calPending[i])
          ELSE calAttendance
    /\ lastError' =
          IF ok THEN lastError
          ELSE [handler |-> "loadAttendance", code |-> "store_unavailable"]
    /\ calLoading' = FALSE
    /\ calPending' = SubSeq(calPending, 1, i - 1) \o SubSeq(calPending, i + 1, Len(calPending))
    /\ UNCHANGED <<calMonth, offCal>>

CalendarNext ==
    \/ \E by \in {0 - 1, 1} : ChangeMonth(by)
    \/ \E i \in 1..MaxPending, ok \in BOOLEAN : LoadAttendanceDone(i, ok)

SpecCalendar == CalendarInit /\ [][CalendarNext]_vars

(* ---------------- the application shell (AppContent, Navbar) ---------------- *)

\* the values useAuth() hands to AppContent
AppUsers == {"null", "e1", "m1"}

AppProfiles ==
    {NoProfile,
     [id |-> "e1", role |-> "employee", employee_id |-> "EMP001", department |-> "Sales"],
     [id |-> "m1", role |-> "manager", employee_id |-> "MGR001", department |-> "Sales"]}

\* Navbar: the ids of the links of each role
employeeLinks == <<"dashboard", "attendance", "history", "profile">>

managerLinks == <<"dashboard", "all-attendance", "calendar", "reports">>

\* links = profile?.role === 'manager' ? managerLinks : employeeLinks, and
\* the ids of the buttons made of them
LinkIds(profile) ==
    LET links == IF profile.role = "manager" THEN managerLinks ELSE employeeLinks
    IN {links[i] : i \in DOMAIN links}

\* renderPage with the role left out: one switch over all page ids
RenderPageByIdOnly(profile, page) ==
    CASE page = "history" -> "EmployeeHistory"
      [] page = "profile" -> "EmployeeProfile"
      [] page = "all-attendance" -> "AllAttendance"
      [] page = "calendar" -> "TeamCalendar"
      [] page = "reports" -> "Reports"
      [] OTHER -> IF profile.role = "employee" THEN "EmployeeDashboard"
                  ELSE "ManagerDashboard"

\* renderPage: the component for currentPage under the profile's role
RenderPage(profile, page) ==
    IF profile.role = "employee"
    THEN CASE page = "dashboard" -> "EmployeeDashboard"
           [] page = "attendance" -> "EmployeeDashboard"
           [] page = "history" -> "EmployeeHistory"
           [] page = "profile" -> "EmployeeProfile"
           [] OTHER -> "EmployeeDashboard"
    ELSE CASE page = "dashboard" -> "ManagerDashboard"
           [] page = "all-attendance" -> "AllAttendance"
           [] page = "calendar" -> "TeamCalendar"
           [] page = "reports" -> "Reports"
           [] OTHER -> "ManagerDashboard"

\* what AppContent returns
AppContent(isLoading, user, profile, page) ==
    IF isLoading THEN "Loading"
    ELSE IF user = "null" \/ profile = NoProfile THEN "AuthPage"
    ELSE RenderPage(profile, page)

Rendered == AppContent(authLoading, appUser, appProfile, currentPage)

AppInit ==
    /\ DashIdle
    /\ PolicyIdle
    /\ SummaryIdle
    /\ ManagerIdle
    /\ ReportsIdle
    /\ CalendarIdle
    /\ ListIdle
    /\ authLoading = TRUE
    /\ appUser = "null"
    /\ appProfile = NoProfile
    /\ currentPage = "dashboard"

\* the auth context hands AppContent new values (sign in, sign out, the
\* profile fetched, the session restored); currentPage is kept
AuthChange(isLoading, user, profile) ==
    /\ <<isLoading, user, profile>> # <<authLoading, appUser, appProfile>>
    /\ authLoading' = isLoading
    /\ appUser' = user
    /\ appProfile' = profile
    /\ UNCHANGED <<currentPage, offApp>>

\* a click on a link of the Navbar, which is there only with a page
OnNavigate(id) ==
    /\ Rendered \notin {"Loading", "AuthPage"}
    /\ id \in LinkIds(appProfile)
    /\ currentPage' = id
    /\ UNCHANGED <<authLoading, appUser, appProfile, offApp>>

AppNext ==
    \/ \E isLoading \in BOOLEAN, user \in AppUsers, profile \in AppProfiles :
          AuthChange(isLoading, user, profile)
    \/ \E id \in LinkIds(appProfile) : OnNavigate(id)

SpecApp == AppInit /\ [][AppNext]_vars

(* ---------------- the data loads of the pages ---------------- *)

\* a change of selectedEmployee on a list page, and the effect that follows
\* it: loadData / loadAttendance up to the await of the attendance query
ChangeEmployee(p, e) ==
    /\ e # listEmployee[p]
    /\ Len(listPending[p]) < MaxPending
    /\ listEmployee' = [listEmployee EXCEPT ![p] = e]
    /\ listLoading' = [listLoading EXCEPT ![p] = TRUE]
    /\ listPending' = [listPending EXCEPT ![p] = Append(@, e)]
    /\ UNCHANGED <<listShown, offList>>

\* loadData / loadAttendance of a list page from the await on, for the i-th
\* query awaiting its answer: ok = FALSE is an answer with an error or a
\* rejected call, thrown and caught
LoadDataDone(p, i, ok) ==
    /\ i \in DOMAIN listPending[p]
    /\ listShown' = [listShown EXCEPT ![p] = IF ok THEN listPending[p][i] ELSE @]
    /\ listLoading' = [listLoading EXCEPT ![p] = FALSE]
    /\ listPending' =
          [listPending EXCEPT ![p] = SubSeq(@, 1, i - 1) \o SubSeq(@, i + 1, Len(@))]
    /\ UNCHANGED <<listEmployee, offList>>

\* loadDashboardData when a store call throws: the catch logs, the finally
\* resets loading
LoadDashboardDataThrows(s) ==
    /\ pc[s] = "load"
    /\ lastError' = [handler |-> "loadDashboardData", code |-> "thrown"]
    /\ loading' = [loading EXCEPT ![s] = FALSE]
    /\ pc' = [pc EXCEPT ![s] = "idle"]
    /\ UNCHANGED <<tz, now, attendance, nextId, todayAttendance>>
    /\ UNCHANGED offDash

\* loadDashboardStats when the store fails: thrown = TRUE is a call that
\* throws, and setStats is not reached; thrown = FALSE is every query
\* answered {data: null, error}, read as no rows
LoadDashboardStatsFails(thrown) ==
    /\ stats' =
          IF thrown THEN stats
          ELSE [totalEmployees |-> 0,
                todayPresent |-> 0,
                todayAbsent |-> 0,
                todayLate |-> 0,
                weeklyTrend |-> WeeklyTrend({}, 0, now, tz),
                departmentStats |-> <<>>,
                absentToday |-> <<>>]
    /\ mgrLoading' = FALSE
    /\ UNCHANGED <<tz, now, mgrProfiles, mgrAttendance, offMgr>>

MonthPages == {"EmployeeHistory", "TeamCalendar"}

\* a user is signed in and a page of the Navbar is open, with its load begun
LoadingInit ==
    /\ tz = 0
    /\ now = DateOf(OpeningMonth, 15, tz) + 12 * SecondsPerHour
    /\ attendance = {}
    /\ nextId = 1
    /\ todayAttendance = [s \in Sessions |-> NoRow]
    /\ loading = [s \in Sessions |-> TRUE]
    /\ pc = [s \in Sessions |-> "load"]
    /\ lastError = NoError
    /\ PolicyIdle
    /\ SummaryIdle
    /\ ReportsIdle
    /\ mgrProfiles = <<ProfileOf(1, "employee", "")>>
    /\ mgrAttendance = {}
    /\ stats = StatsDefault
    /\ mgrLoading = TRUE
    /\ calMonth = now
    /\ calAttendance = {}
    /\ calLoading = TRUE
    /\ calPending = <<MonthRange(now, tz)>>
    /\ authLoading = FALSE
    /\ appUser \in AppUsers \ {"null"}
    /\ appProfile \in {q \in AppProfiles : q.id = appUser}
    /\ currentPage \in LinkIds(appProfile)
    /\ listEmployee = [p \in ListPages |-> "all"]
    /\ listShown = [p \in ListPages |-> "none"]
    /\ listLoading = [p \in ListPages |-> TRUE]
    /\ listPending = [p \in ListPages |-> <<"all">>]

\* the steps of a page are taken while AppContent renders the page
LoadingNext ==
    \/ \E s \in Sessions : Rendered = "EmployeeDashboard" /\ Mount(s)
    \/ \E s \in Sessions, up \in BOOLEAN :
          Rendered = "EmployeeDashboard" /\ LoadDashboardData(s, up)
    \/ \E s \in Sessions : Rendered = "EmployeeDashboard" /\ LoadDashboardDataThrows(s)
    \/ \E s \in Sessions, up \in BOOLEAN :
          Rendered = "EmployeeDashboard" /\ HandleCheckIn(s, up)
    \/ \E s \in Sessions, up \in BOOLEAN :
          Rendered = "EmployeeDashboard" /\ HandleCheckOut(s, up)
    \/ Rendered = "ManagerDashboard" /\ LoadDashboardStats
    \/ \E thrown \in BOOLEAN :
          Rendered = "ManagerDashboard" /\ LoadDashboardStatsFails(thrown)
    \/ \E by \in {0 - 1, 1} : Rendered \in MonthPages /\ ChangeMonth(by)
    \/ \E i \in 1..MaxPending, ok \in BOOLEAN :
          Rendered \in MonthPages /\ LoadAttendanceDone(i, ok)
    \/ \E e \in {"all", "e1"} : Rendered \in ListPages /\ ChangeEmployee(Rendered, e)
    \/ \E i \in 1..MaxPending, ok \in BOOLEAN :
          Rendered \in ListPages /\ LoadDataDone(Rendered, i, ok)

\* every store call is answered, with rows, with an error, or by throwing
StoreAnswers ==
    /\ \A s \in Sessions :
          WF_vars(/\ Rendered = "EmployeeDashboard"
                  /\ \/ \E up \in BOOLEAN : LoadDashboardData(s, up)
                     \/ LoadDashboardDataThrows(s))
    /\ WF_vars(/\ Rendered = "ManagerDashboard"
               /\ \/ LoadDashboardStats
                  \/ \E thrown \in BOOLEAN : LoadDashboardStatsFails(thrown))
    /\ \A i \in 1..MaxPending :
          WF_vars(Rendered \in MonthPages /\ \E ok \in BOOLEAN : LoadAttendanceDone(i, ok))
    /\ \A i \in 1..MaxPending :
          WF_vars(Rendered \in ListPages /\ \E ok \in BOOLEAN : LoadDataDone(Rendered, i, ok))

SpecLoading == LoadingInit /\ [][LoadingNext]_vars /\ StoreAnswers

(* ---------------- properties ---------------- *)

\* the second of the local day at which instant t falls
LocalSecondOfDay(t) == (t + tz) % SecondsPerDay

\* the store's row for (u, d), as a set
RowsOf(u, d) == {r \in attendance : r.user_id = u /\ r.date = d}

\* the store's row with id i, as a set
RowsWithId(rows, i) == {r \in rows : r.id = i}

Abs(x) == IF x < 0 THEN -x ELSE x

\* C1: in every reachable state the store holds at most one attendance
\* record per (employee, date), also when two sessions of the employee both
\* saw no record for today before either inserted: the second insert is
\* rejected by the store.
C1_OneRecordPerEmployeeDate ==
    \A r1 \in attendance, r2 \in attendance :
        (r1.user_id = r2.user_id /\ r1.date = r2.date) => r1 = r2

\* the first insert ever has succeeded, its session has not reloaded yet,
\* and the other session, which also holds "no record", was rejected
C1_Witness ==
    /\ nextId = 2
    /\ Cardinality(attendance) = 1
    /\ lastError = [handler |-> "checkin", code |-> "unique_violation"]
    /\ \E s1 \in Sessions, s2 \in Sessions :
        /\ s1 # s2
        /\ pc[s1] = "load" /\ ~loading[s1] /\ todayAttendance[s1] = NoRow
        /\ pc[s2] = "idle" /\ ~loading[s2] /\ todayAttendance[s2] = NoRow

C3_SecondCheckInRejected ==
    [][\A s \in Sessions, up \in BOOLEAN :
          (HandleCheckIn(s, up) /\ RowsOf(SessionUser(s), IsoDate(now)) # {})
          => /\ attendance' = attendance
             /\ lastError'.handler = "checkin"
             /\ up => lastError'.code = "unique_violation"]_vars

\* a check-in was rejected on a day whose record is already checked out
C3_Witness ==
    /\ lastError = [handler |-> "checkin", code |-> "unique_violation"]
    /\ \E s \in Sessions :
        /\ pc[s] = "idle" /\ todayAttendance[s] = NoRow
        /\ \E r \in RowsOf(SessionUser(s), IsoDate(now)) : r.check_out_time # NULL

\* C4: a check-out on a record that already has a check-out time leaves
\* the table as it was.
C4_CheckOutTwiceRejected ==
    [][\A s \in Sessions, up \in BOOLEAN :
          (/\ HandleCheckOut(s, up)
           /\ \E r \in RowsWithId(attendance, todayAttendance[s].id) :
                  r.check_out_time # NULL)
          => attendance' = attendance]_vars

\* C5: a check-out while the store has no record for (employee, today)
\* leaves the table as it was.
C5_CheckOutWithoutRecordRejected ==
    [][\A s \in Sessions, up \in BOOLEAN :
          (HandleCheckOut(s, up) /\ RowsOf(SessionUser(s), IsoDate(now)) = {})
          => attendance' = attendance]_vars

\* C6: a successful check-out writes the check-out instant and the elapsed
\* time since the record's check_in_time, in hours rounded to two decimals
\* (a nearest hundredth); 8 h 30 min gives 8.50.
C6_TotalHours ==
    [][\A s \in Sessions :
          (HandleCheckOut(s, TRUE) /\ pc'[s] = "load")
          => \A r \in RowsWithId(attendance, todayAttendance[s].id) :
               \E r2 \in RowsWithId(attendance', r.id) :
                 /\ r2.check_out_time = now
                 /\ Abs(SecondsPerHour * r2.total_hours - 100 * (now - r.check_in_time))
                        <= SecondsPerHour \div 2
                 /\ (now - r.check_in_time = 8 * SecondsPerHour + 1800)
                        => r2.total_hours = 850]_vars

\* a record checked out 8 h 30 min after check-in, and a record whose
\* elapsed time is not a whole number of hundredths of an hour
C6_Witness ==
    /\ \E r \in attendance :
        /\ r.check_out_time - r.check_in_time = 8 * SecondsPerHour + 1800
        /\ r.total_hours = 850
    /\ \E r \in attendance :
        /\ r.check_out_time # NULL
        /\ r.check_out_time > r.check_in_time
        /\ ((r.check_out_time - r.check_in_time) * 100) % SecondsPerHour # 0

\* C7: a check-out at an instant before the record's check_in_time leaves
\* the table as it was.
C7_NegativeDurationRejected ==
    [][\A s \in Sessions, up \in BOOLEAN :
          (HandleCheckOut(s, up) /\ now < todayAttendance[s].check_in_time)
          => attendance' = attendance]_vars

\* C8: every record with a check_out_time has check_out_time >=
\* check_in_time and total_hours >= 0.
C8_CheckOutNotBeforeCheckIn ==
    \A r \in attendance :
        r.check_out_time # NULL
        => (r.check_out_time >= r.check_in_time /\ r.total_hours >= 0)

\* C9: no step changes the status, date, check_in_time or employee of a
\* stored record; check-out in particular leaves them as check-in set them.
C9_CheckOutFrame ==
    [][\A r \in attendance :
          \E r2 \in RowsWithId(attendance', r.id) :
            /\ r2.status = r.status
            /\ r2.date = r.date
            /\ r2.check_in_time = r.check_in_time
            /\ r2.user_id = r.user_id]_vars

\* a late record checked out on a later date, before 09:00 local time
C9_Witness ==
    \E r \in attendance :
        /\ r.status = "late"
        /\ r.check_out_time # NULL
        /\ LocalSecondOfDay(r.check_out_time) < 9 * SecondsPerHour
        /\ IsoDate(r.check_out_time) > r.date

\* C10: records are never deleted and a record whose check_out_time is set
\* never changes afterwards.
C10_CheckedOutRecordFrozen ==
    [][\A r \in attendance :
          /\ RowsWithId(attendance', r.id) # {}
          /\ r.check_out_time # NULL => r \in attendance']_vars

\* C11: a load of today's record that fails while the store holds a record
\* for (employee, today) does not leave the session in the state in which
\* Check In is offered (loading false, todayAttendance null).
C11_FailedLookupNotNoRecord ==
    [][\A s \in Sessions :
          (LoadDashboardData(s, FALSE) /\ RowsOf(SessionUser(s), IsoDate(now)) # {})
          => ~(~loading'[s] /\ todayAttendance'[s] = NoRow)]_vars

\* C12: a check-in or check-out whose write the store rejects or fails
\* leaves the table and the session's todayAttendance as they were; and a
\* record has either no check_out_time and the default total_hours, or a
\* check_out_time together with the hours elapsed up to it.
C12_FailedWriteChangesNothing ==
    [][/\ \A s \in Sessions :
            (\/ HandleCheckIn(s, FALSE)
             \/ HandleCheckOut(s, FALSE)
             \/ (HandleCheckIn(s, TRUE) /\ RowsOf(SessionUser(s), IsoDate(now)) # {}))
            => /\ attendance' = attendance
               /\ todayAttendance' = todayAttendance
               /\ lastError'.code # "none"
       /\ \A r \in attendance' :
            IF r.check_out_time = NULL
            THEN r.total_hours = 0
            ELSE Abs(SecondsPerHour * r.total_hours
                       - 100 * (r.check_out_time - r.check_in_time))
                   <= SecondsPerHour \div 2]_vars

\* a check-out failed in the store while the session holds an open record,
\* and the stored record is still open
C12_Witness ==
    /\ lastError = [handler |-> "checkout", code |-> "store_unavailable"]
    /\ \E s \in Sessions :
        /\ pc[s] = "idle"
        /\ todayAttendance[s] # NoRow
        /\ todayAttendance[s] \in attendance
        /\ todayAttendance[s].check_out_time = NULL

\* C13: the date of every record is the calendar date of its check-in
\* instant in the deployment's local time.
C13_DateIsLocalDate ==
    \A r \in attendance : r.date = (r.check_in_time + tz) \div SecondsPerDay

\* C14: for every request, the policies allow it when it touches only rows
\* of the requesting actor, allow a manager's select of any row, refuse an
\* insert, update or delete that touches a row of another actor, and refuse
\* an employee's select of another actor's row.
C14_RowPolicies ==
    lastAccess.op # "none" =>
        /\ lastAccess.own => lastAccess.allowed
        /\ (lastAccess.role = "manager" /\ lastAccess.op = "select") => lastAccess.allowed
        /\ (~lastAccess.own /\ lastAccess.op \in {"insert", "update", "delete"})
               => ~lastAccess.allowed
        /\ (lastAccess.role = "employee" /\ ~lastAccess.own /\ lastAccess.op = "select")
               => ~lastAccess.allowed

\* C14 as amended: as C14, except that no actor can delete a profile row,
\* its own included; and a refused request changes no row.
C14_RowPoliciesAmended ==
    [][/\ lastAccess'.op # "none" =>
            /\ (lastAccess'.own
                  /\ ~(lastAccess'.table = "profiles" /\ lastAccess'.op = "delete"))
                   => lastAccess'.allowed
            /\ (lastAccess'.table = "profiles" /\ lastAccess'.op = "delete")
                   => ~lastAccess'.allowed
            /\ (lastAccess'.role = "manager" /\ lastAccess'.op = "select")
                   => lastAccess'.allowed
            /\ (~lastAccess'.own /\ lastAccess'.op \in {"insert", "update", "delete"})
                   => ~lastAccess'.allowed
            /\ (lastAccess'.role = "employee" /\ ~lastAccess'.own
                  /\ lastAccess'.op = "select")
                   => ~lastAccess'.allowed
       /\ ~lastAccess'.allowed
            => (polProfiles' = polProfiles /\ polAttendance' = polAttendance)]_vars

\* a manager's update of another actor's attendance row was refused
C14_Witness ==
    /\ lastAccess.role = "manager"
    /\ lastAccess.table = "attendance"
    /\ lastAccess.op = "update"
    /\ ~lastAccess.own
    /\ ~lastAccess.allowed
    /\ \E r \in polAttendance : r.user_id # lastAccess.actor

\* C15: no step changes the id, role or employee code of an existing
\* profile.
C15_ProfileKeyImmutable ==
    [][\A a \in Actors :
          polProfiles[a] # NoProfile
          => /\ polProfiles'[a].id = polProfiles[a].id
             /\ polProfiles'[a].role = polProfiles[a].role
             /\ polProfiles'[a].employee_id = polProfiles[a].employee_id]_vars

\* the number of records of the sequence with status st
NumberWithStatus(records, st) ==
    Cardinality({i \in DOMAIN records : records[i].status = st})

\* the sum of total_hours over the records at the indices in I, null as 0
RECURSIVE HoursOver(_, _)
HoursOver(records, I) ==
    IF I = {} THEN 0
    ELSE LET i == CHOOSE j \in I : TRUE
         IN (IF records[i].total_hours = NULL THEN 0 ELSE records[i].total_hours)
              + HoursOver(records, I \ {i})

\* C16: the summary of the employee dashboard and that of the reports page
\* give, for present, absent and late, the number of records with exactly
\* that status, and as totalHours the sum of total_hours with null as 0;
\* half-day records are in no count and in the hours; both pages agree.
C16_SummaryCounts ==
    /\ monthlyStats # MonthlyStatsDefault =>
         /\ \A st \in {"present", "absent", "late"} :
              monthlyStats[st] = NumberWithStatus(sumRecords, st)
         /\ monthlyStats.totalHours = HoursOver(sumRecords, DOMAIN sumRecords)
    /\ reportStats # NotRendered =>
         /\ \A st \in {"present", "absent", "late"} :
              reportStats[st] = NumberWithStatus(sumRecords, st)
         /\ reportStats.totalHours = HoursOver(sumRecords, DOMAIN sumRecords)
         /\ reportStats.present + reportStats.absent + reportStats.late
              = Len(sumRecords) - NumberWithStatus(sumRecords, "half-day")
    /\ (monthlyStats # MonthlyStatsDefault /\ reportStats # NotRendered) =>
         \A f \in {"present", "absent", "late", "totalHours"} :
             monthlyStats[f] = reportStats[f]

\* both pages have summarised the records present, present, late, absent
C16_Witness ==
    /\ Len(sumRecords) = 4
    /\ [i \in 1..4 |-> sumRecords[i].status] = <<"present", "present", "late", "absent">>
    /\ monthlyStats.present = 2 /\ monthlyStats.late = 1 /\ monthlyStats.absent = 1
    /\ reportStats.present = 2 /\ reportStats.late = 1 /\ reportStats.absent = 1

\* the indices of the profiles with role employee
EmployeeIndices == {i \in DOMAIN mgrProfiles : mgrProfiles[i].role = "employee"}

\* the ids with a row of table attendance dated today
IdsWithRecordToday == {a.user_id : a \in {b \in mgrAttendance : b.date = IsoDate(now)}}

\* C17: the weekly trend has exactly 7 buckets, the k-th for the day
\* endDate - 7 + k; present is the number of that day's records with status
\* present or late, absent the number of employees minus the number of that
\* day's records whatever their status.
C17_WeeklyTrend ==
    ~mgrLoading =>
        /\ Len(stats.weeklyTrend) = 7
        /\ \A k \in 1..7 :
             LET d == IsoDate(now) - 7 + k
                 recs == {a \in mgrAttendance : a.date = d}
             IN /\ stats.weeklyTrend[k].present
                     = Cardinality({a \in recs : a.status \in {"present", "late"}})
                /\ stats.weeklyTrend[k].absent
                     = Cardinality(EmployeeIndices) - Cardinality(recs)

\* two employees, one record today with status absent and one record seven
\* days ago: today's bucket has absent = 1 and no bucket has the old record
C17_Witness ==
    /\ ~mgrLoading
    /\ Cardinality(EmployeeIndices) = 2
    /\ \E a \in mgrAttendance : a.date = IsoDate(now) /\ a.status = "absent"
    /\ \E a \in mgrAttendance : a.date = IsoDate(now) - 7 /\ a.status = "present"
    /\ stats.weeklyTrend[7].absent = 1
    /\ \A k \in 1..7 : stats.weeklyTrend[k].present = 0

\* the bucket of the profile at index i
BucketOf(i) ==
    IF mgrProfiles[i].department = "" THEN "Unassigned" ELSE mgrProfiles[i].department

\* C18: the department rollup has one bucket per department of an employee
\* ('Unassigned' for the empty department), no bucket twice, and in each
\* bucket total is the number of its employees and present the number of
\* them with a record today; managers are counted nowhere.
C18_DepartmentRollup ==
    ~mgrLoading =>
        LET ds == stats.departmentStats
        IN /\ \A j, k \in DOMAIN ds : j # k => ds[j].department # ds[k].department
           /\ {ds[j].department : j \in DOMAIN ds} = {BucketOf(i) : i \in EmployeeIndices}
           /\ \A j \in DOMAIN ds :
                LET members == {i \in EmployeeIndices : BucketOf(i) = ds[j].department}
                IN /\ ds[j].total = Cardinality(members)
                   /\ ds[j].present
                        = Cardinality({i \in members : mgrProfiles[i].id \in IdsWithRecordToday})

\* an employee without department who has a record today and a manager of
\* department Eng: the only bucket is Unassigned with 1 of 1
C18_Witness ==
    /\ ~mgrLoading
    /\ \E i \in EmployeeIndices :
         mgrProfiles[i].department = "" /\ mgrProfiles[i].id \in IdsWithRecordToday
    /\ \E i \in DOMAIN mgrProfiles :
         mgrProfiles[i].role = "manager" /\ mgrProfiles[i].department = "Eng"
    /\ stats.departmentStats = <<[department |-> "Unassigned", present |-> 1, total |-> 1]>>

\* the entry of the absentee list for the profile at index i
AbsenteeOf(i) ==
    [name |-> mgrProfiles[i].name, employee_id |-> mgrProfiles[i].employee_id,
     department |-> mgrProfiles[i].department]

\* C19: the absentee list holds, once each, exactly the employees without a
\* record today (whatever the status of the records), as name, employee code
\* and department; no manager and no employee with a record is in it.
C19_AbsenteeList ==
    ~mgrLoading =>
        LET expected == {i \in EmployeeIndices : mgrProfiles[i].id \notin IdsWithRecordToday}
        IN /\ Len(stats.absentToday) = Cardinality(expected)
           /\ {stats.absentToday[k] : k \in DOMAIN stats.absentToday}
                = {AbsenteeOf(i) : i \in expected}

\* an employee with a record of status absent today and an employee
\* without a record: only the second is listed
C19_Witness ==
    /\ ~mgrLoading
    /\ Len(mgrProfiles) = 2
    /\ \A i \in 1..2 : mgrProfiles[i].role = "employee"
    /\ \E a \in mgrAttendance :
         a.user_id = 1 /\ a.date = IsoDate(now) /\ a.status = "absent"
    /\ IdsWithRecordToday = {1}
    /\ stats.absentToday = <<AbsenteeOf(2)>>

\* C20: no percentage and no bar width of a rendered page is computed by a
\* division by zero.
C20_NoDivisionByZero ==
    /\ ~mgrLoading =>
         /\ AttendanceRate(stats).den # 0
         /\ \A k \in DOMAIN WeeklyBars(stats) :
              WeeklyBars(stats)[k].present.den # 0 /\ WeeklyBars(stats)[k].absent.den # 0
         /\ \A k \in DOMAIN DepartmentBars(stats) :
              DepartmentBars(stats)[k].percent.den # 0 /\ DepartmentBars(stats)[k].width.den # 0
    /\ \A d \in RecordDates(now) :
         CalendarPercentage(GetAttendanceStatsForDate(mgrAttendance, d)).den # 0

\* the orderings of 1..n
Orderings(n) == {q \in [1..n -> 1..n] : \A i, j \in 1..n : q[i] = q[j] => i = j}

\* the sequence seq in the order q
Reordered(seq, q) == [i \in DOMAIN seq |-> seq[q[i]]]

\* C21: the summary counts, the weekly trend, the department rollup and the
\* absentee list are the same for every ordering of the same records and
\* profiles, and computing them changes neither the profiles nor the records.
C21_OrderIndependent ==
    [][/\ mgrProfiles' = mgrProfiles
       /\ mgrAttendance' = mgrAttendance
       /\ \A recs \in SeqUpTo(SumRecordValues, 2) : \A q \in Orderings(Len(recs)) :
            MonthlyStatsOf(Reordered(recs, q)) = MonthlyStatsOf(recs)
       /\ ~mgrLoading' =>
            \A q \in Orderings(Len(mgrProfiles)) :
               LET profiles == Reordered(mgrProfiles, q)
                   ids == PresentUserIds(TodayRows(mgrAttendance, IsoDate(now)))
               IN /\ stats'.weeklyTrend
                       = WeeklyTrend(WeeklyRows(mgrAttendance, IsoDate(SetDateBack(now, WeekDays - 1))),
                                     Len(Employees(profiles)), now, tz)
                  /\ stats'.departmentStats = DepartmentStats(profiles, ids)
                  /\ stats'.absentToday = AbsentEmployees(profiles, ids)]_vars

\* a standard CSV reader (RFC 4180) on an unquoted field from index i on:
\* the field ends before the next comma or line break, or at the end of the
\* text; a double quote inside it is an error
RECURSIVE ReadPlain(_, _, _)
ReadPlain(text, i, field) ==
    IF i > Len(text) \/ text[i] \in {",", "\n"} THEN [ok |-> TRUE, field |-> field, next |-> i]
    ELSE IF text[i] = "\"" THEN [ok |-> FALSE, field |-> field, next |-> i]
    ELSE ReadPlain(text, i + 1, Append(field, text[i]))

\* the reader inside a quoted field from index i on: two double quotes are
\* one double quote of the field, one double quote closes the field and must
\* be followed by a comma, a line break or the end of the text
RECURSIVE ReadQuoted(_, _, _)
ReadQuoted(text, i, field) ==
    IF i > Len(text) THEN [ok |-> FALSE, field |-> field, next |-> i]
    ELSE IF text[i] # "\"" THEN ReadQuoted(text, i + 1, Append(field, text[i]))
    ELSE IF i + 1 <= Len(text) /\ text[i + 1] = "\""
         THEN ReadQuoted(text, i + 2, Append(field, "\""))
    ELSE [ok |-> i + 1 > Len(text) \/ text[i + 1] \in {",", "\n"},
          field |-> field, next |-> i + 1]

\* the reader on the field that starts at index i
ReadField(text, i) ==
    IF i <= Len(text) /\ text[i] = "\"" THEN ReadQuoted(text, i + 1, <<>>)
    ELSE ReadPlain(text, i, <<>>)

\* the reader on the rest of a row whose next field starts at index i
RECURSIVE ReadRow(_, _, _)
ReadRow(text, i, row) ==
    LET f == ReadField(text, i)
    IN IF ~f.ok THEN [ok |-> FALSE, row |-> row, next |-> i]
       ELSE IF f.next <= Len(text) /\ text[f.next] = ","
            THEN ReadRow(text, f.next + 1, Append(row, f.field))
       ELSE [ok |-> TRUE, row |-> Append(row, f.field), next |-> f.next]

\* the reader on the rows from index i on
RECURSIVE ReadRows(_, _, _)
ReadRows(text, i, rows) ==
    LET r == ReadRow(text, i, <<>>)
    IN IF ~r.ok THEN [ok |-> FALSE, rows |-> <<>>]
       ELSE IF r.next > Len(text) THEN [ok |-> TRUE, rows |-> Append(rows, r.row)]
       ELSE ReadRows(text, r.next + 1, Append(rows, r.row))

\* the rows a standard CSV reader finds in the text
ParseCsv(text) == ReadRows(text, 1, <<>>)

\* the field values of a record, as the export is to write them
WrittenFields(record) ==
    <<  record.profiles.name, record.profiles.employee_id, record.profiles.department,
        DateString(record.date),
        IF record.check_in_time = NULL THEN <<"-">>
        ELSE ToLocaleString(record.check_in_time, tz),
        IF record.check_out_time = NULL THEN <<"-">>
        ELSE ToLocaleString(record.check_out_time, tz),
        IF record.total_hours = NULL THEN <<"0">> ELSE <<ToString(record.total_hours)>>,
        <<record.status>>  >>

\* C22: a standard CSV reader finds in the exported text the header and,
\* for each record, the field values that were written, also when names and
\* departments hold commas, double quotes and line breaks.
C22_CsvRoundTrip ==
    repDownload # NoDownload =>
        LET parsed == ParseCsv(repDownload.content)
        IN /\ parsed.ok
           /\ parsed.rows
                = <<CsvHeaders>> \o [i \in DOMAIN repAttendance |-> WrittenFields(repAttendance[i])]

\* C23: the export has the header row of the 8 columns in their order, then
\* one row of 8 fields per record in input order, with '-' for a missing
\* check-in or check-out time and 0 for missing hours, and its filename is
\* attendance_report_<startDate>_to_<endDate>.csv for the selected range.
C23_CsvLayout ==
    repDownload # NoDownload =>
        LET parsed == ParseCsv(repDownload.content)
        IN /\ parsed.ok
           /\ Len(parsed.rows) = 1 + Len(repAttendance)
           /\ parsed.rows[1]
                = <<  <<"Employee Name">>, <<"Employee ID">>, <<"Department">>, <<"Date">>,
                      <<"Check In Time">>, <<"Check Out Time">>, <<"Total Hours">>,
                      <<"Status">>  >>
           /\ \A i \in DOMAIN repAttendance :
                LET r == parsed.rows[i + 1]
                    a == repAttendance[i]
                IN /\ Len(r) = 8
                   /\ r[2] = a.profiles.employee_id
                   /\ a.check_in_time = NULL => r[5] = <<"-">>
                   /\ a.check_out_time = NULL => r[6] = <<"-">>
                   /\ a.total_hours = NULL => r[7] = <<"0">>
                   /\ r[8] = <<a.status>>
           /\ repDownload.filename
                = <<"attendance_report_", "date" \o ToString(repRange.startDate), "_to_",
                    "date" \o ToString(repRange.endDate), ".csv">>

\* the month on display: the month of currentMonth on the client's calendar
DisplayedMonth ==
    CHOOSE M \in MonthsAround :
        /\ FirstDayOfMonth(M) * SecondsPerDay <= calMonth + tz
        /\ calMonth + tz < FirstDayOfMonth(M + 1) * SecondsPerDay

\* C24: in every timezone the date strings of the month pages are the
\* dates of the month on display: the range of the query runs from its first
\* to its last date, and the string for grid day d is its d-th date, so that
\* a record dated the d-th is found for cell d and for no other cell.
C24_MonthDates ==
    LET first == FirstDayOfMonth(DisplayedMonth)
        last == FirstDayOfMonth(DisplayedMonth + 1) - 1
    IN /\ MonthRange(calMonth, tz) = [startDate |-> first, endDate |-> last]
       /\ \A i \in DOMAIN calPending :
            \E M \in Months :
                calPending[i] = [startDate |-> FirstDayOfMonth(M),
                                 endDate |-> FirstDayOfMonth(M + 1) - 1]
       /\ \A a \in calAttendance : \A d \in 1..(last - first + 1) :
            (GetAttendanceForDate(calAttendance, calMonth, d, tz) = a)
                <=> (a.date = first + d - 1)

\* C25: the grid of the month on display is k nulls followed by 1..n, where
\* k is the weekday (Sunday = 0) of the first day of the month and n the
\* number of its days; its length is k + n and day 1 is at index k (counted
\* from 0).
C25_MonthGrid ==
    LET k == (FirstDayOfMonth(DisplayedMonth) + 4) % 7
        n == FirstDayOfMonth(DisplayedMonth + 1) - FirstDayOfMonth(DisplayedMonth)
        days == GetDaysInMonth(calMonth, tz)
    IN /\ Len(days) = k + n
       /\ \A i \in 1..k : days[i] = NULL
       /\ \A i \in 1..n : days[k + i] = i

\* February 1972 in a client of UTC+5:30: the grid is 2 nulls and 1..29
C25_Witness ==
    /\ tz = 5 * SecondsPerHour + 1800
    /\ calMonth # now
    /\ DisplayedMonth = 25
    /\ Len(GetDaysInMonth(calMonth, tz)) = 31
    /\ GetDaysInMonth(calMonth, tz)[2] = NULL
    /\ GetDaysInMonth(calMonth, tz)[3] = 1
    /\ GetDaysInMonth(calMonth, tz)[31] = 29

\* C27: once no query is outstanding, the records shown are the result of
\* the query for the month on display: when, no query having failed, an
\* answer leaves no query outstanding, what is shown afterwards is that
\* month's records, in whatever order the answers came.
C27_NewestQueryWins ==
    [][\A i \in 1..MaxPending :
          (LoadAttendanceDone(i, TRUE) /\ calPending' = <<>> /\ lastError = NoError)
          => calAttendance' = MonthQuery(attendance, "e1", MonthRange(calMonth, tz))]_vars

\* the stage a session shows: 0 no record, 1 checked in, 2 completed
StageOf(rec) ==
    IF rec = NoRow THEN 0 ELSE IF rec.check_out_time = NULL THEN 1 ELSE 2

\* C26: a session is offered Check In exactly when its loaded record is
\* absent, Check Out exactly when the record has no check-out time, and
\* Completed once it has one; the handlers run only from their button; and
\* while the page shows today's record, no step takes the session back to an
\* earlier stage of no record, checked in, completed.
C26_ForwardOnly ==
    [][\A s \in Sessions :
          /\ DashboardButton(todayAttendance[s])
                = <<"Check In", "Check Out", "Completed">>[StageOf(todayAttendance[s]) + 1]
          /\ \A up \in BOOLEAN :
                /\ HandleCheckIn(s, up) => DashboardButton(todayAttendance[s]) = "Check In"
                /\ HandleCheckOut(s, up) => DashboardButton(todayAttendance[s]) = "Check Out"
          /\ (/\ ~loading[s] /\ ~loading'[s]
              /\ IsoDate(now') = IsoDate(now)
              /\ todayAttendance[s] # NoRow => todayAttendance[s].date = IsoDate(now))
             => StageOf(todayAttendance'[s]) >= StageOf(todayAttendance[s])]_vars

\* C28: on the loaded manager dashboard the "Absent Today" count is the
\* number of entries of the "Absent Employees Today" list, present + late +
\* absent is the number of employees, and the absent count is not negative.
C28_AbsentCountMatchesList ==
    ~mgrLoading =>
        /\ stats.todayAbsent = Len(stats.absentToday)
        /\ stats.todayPresent + stats.todayLate + stats.todayAbsent = stats.totalEmployees
        /\ stats.todayAbsent >= 0

EmployeePages == {"EmployeeDashboard", "EmployeeHistory", "EmployeeProfile"}

ManagerPages == {"ManagerDashboard", "AllAttendance", "TeamCalendar", "Reports"}

\* a page of the role is shown, and the role's dashboard for a page id that
\* is none of the role's links
PagesOfRole ==
    /\ appProfile.role = "employee" => Rendered \notin ManagerPages
    /\ appProfile.role = "manager" => Rendered \notin EmployeePages
    /\ Rendered \notin {"Loading", "AuthPage"} =>
          /\ Rendered \in (IF appProfile.role = "employee" THEN EmployeePages ELSE ManagerPages)
          /\ currentPage \notin LinkIds(appProfile) =>
                Rendered = (IF appProfile.role = "employee" THEN "EmployeeDashboard"
                            ELSE "ManagerDashboard")

\* C30 as stated: an employee profile is shown only employee pages, a manager
\* profile only manager pages, an unknown page id shows the role's dashboard,
\* and while the user or the profile is missing only the authentication page
\* is rendered.
C30_RoleScopedPages ==
    /\ PagesOfRole
    /\ (appUser = "null" \/ appProfile = NoProfile) => Rendered = "AuthPage"

\* C30: an employee profile is shown only employee pages, a manager profile
\* only manager pages, an unknown page id shows the role's dashboard, and
\* while the user or the profile is missing only the authentication page is
\* rendered, or the loading screen while the auth state is loading.
C30_RoleScopedPagesOrLoading ==
    /\ PagesOfRole
    /\ (appUser = "null" \/ appProfile = NoProfile) =>
          Rendered = (IF authLoading THEN "Loading" ELSE "AuthPage")

\* an employee is signed in while currentPage still is a manager's page id
C30_Witness ==
    /\ ~authLoading
    /\ appUser = "e1"
    /\ appProfile.role = "employee"
    /\ currentPage = "reports"
    /\ Rendered = "EmployeeDashboard"

\* C29: every data load that has begun (employee dashboard, manager
\* dashboard, history and team calendar, all attendance, reports) leads to
\* the page's loading flag being false, whether the store answers with rows,
\* with an error, or by throwing.
C29_LoadsFinish ==
    /\ \A s \in Sessions :
          (Rendered = "EmployeeDashboard" /\ pc[s] = "load")
             ~> (pc[s] = "idle" /\ ~loading[s])
    /\ (Rendered = "ManagerDashboard" /\ mgrLoading) ~> ~mgrLoading
    /\ (Rendered \in MonthPages /\ calLoading) ~> ~calLoading
    /\ \A p \in ListPages : (Rendered = p /\ listLoading[p]) ~> ~listLoading[p]

\* a month page whose last query failed is no longer loading
C29_Witness ==
    /\ Rendered \in MonthPages
    /\ lastError.handler = "loadAttendance"
    /\ calPending = <<>>
    /\ ~calLoading

====
